---- MODULE Spec2Model ----
(***************************************************************************)
(* Daemon lifecycle, transport and stream proxy of the pgt command line    *)
(* (crates/pgt_cli/src/commands/daemon.rs): start, stop, run_server and    *)
(* lsp-proxy, with the service layer they call (ensure_daemon, run_daemon, *)
(* open_transport, open_socket, WorkspaceClient::shutdown).                *)
(***************************************************************************)
EXTENDS Integers, Sequences, FiniteSets, TLC

\* ------------------------------------------------------------------ bounds

\* Number of clients that call ensure_daemon concurrently.
NClients == 2
\* Number of connect attempts ensure_daemon makes after it spawned a daemon.
PollBound == 2
\* Number of connections the accept loop of one address takes in a run.
MaxConns == 2
\* Number of times the cancellation signal is fired in a run.
MaxCancels == 2
\* Number of stop commands issued concurrently.
NStops == 2
\* Number of bytes each end of the tunnel produces in a run.
MaxBytes == 2
\* Size of the buffer io::copy reads into.
BufCap == 2

Clients == 1..NClients
\* Daemon c is the process client c spawns; PreDaemon is a server process
\* launched by hand (the run-server verb) before any client ran.
PreDaemon == NClients + 1
Daemons == 1..(NClients + 1)
Conns == 1..MaxConns
Stops == 1..NStops
\* listener = NoOwner: no process is bound to the transport address.
NoOwner == 0

VARIABLES
    \* --- the transport address and the server processes
    listener,   \* the daemon bound to the address, or NoOwner
    dpc,        \* daemon -> "none" | "select" | "returned"
    rd,         \* daemon -> state of its run_daemon future: "start" | "accepting" | "Err"
    binds,      \* daemon -> number of listen calls it made
    notified,   \* daemon -> the cancellation Notify holds a permit
    dret,       \* daemon -> result of run_server: "pending" | "Ok" | "Err"
    ncancel,    \* number of times the cancellation signal was fired
    conn,       \* connection -> [st, owner]: handler task of an accepted connection
    \* --- clients of ensure_daemon (start, lsp-proxy)
    ckind,      \* client -> "start" | "proxy"
    cpc,        \* client -> "probe" | "spawn" | "poll" | "report" | "done"
    attempts,   \* client -> connect attempts made after the spawn
    eres,       \* client -> result of ensure_daemon
    cret,       \* client -> result of start / of line 136 of start_lsp_proxy
    console,    \* client -> what start logged on the console
    \* --- stop commands
    spc,        \* stop -> "absent" | "open" | "new" | "send" | "wait" | "done"
    stran,      \* stop -> what open_transport returned: "pending" | "Some" | "None" | "Err"
    starget,    \* stop -> the daemon its transport is connected to, or NoOwner
    sreq,       \* stop -> its shutdown request: "none" | "sent" | "acked" | "unacked"
    sres,       \* stop -> what client.shutdown() returned
    sret,       \* stop -> result of stop: "pending" | "Ok" | "Err"
    sconsole,   \* stop -> what stop logged on the console
    \* --- the lsp-proxy process and its tunnel
    ppc,        \* position of start_lsp_proxy
    pens,       \* what ensure_daemon returned to it
    psock,      \* what open_socket returned to it
    pret,       \* result of start_lsp_proxy: "pending" | "Ok" | "Err"
    lst,        \* direction -> its forwarding task: "unspawned" | "running" | "Ok" | "Err"
    fin,        \* the directions whose task has ended, in the order they ended
    moved,      \* direction -> the io::copy call under way has copied a byte
    produced,   \* direction -> every byte its source end has produced so far
    closed,     \* direction -> its source end is at end-of-stream after those
    rpos,       \* direction -> number of bytes io::copy has read from the source
    buf,        \* direction -> bytes io::copy has read and not yet written
    sink,       \* destination -> every byte written to it so far
    \* --- the logging filter of the server
    fdebug,     \* the build has debug_assertions
    ftarget,    \* target of the event's metadata, a string of characters
    flevel,     \* level of the event's metadata
    fenabled,   \* what enabled() returned: "pending" | "true" | "false"
    finterest,  \* what callsite_enabled() returned: "pending" | "always" | "never"
    fhint       \* what max_level_hint() returned: "pending" | a level

srvVars == <<listener, dpc, rd, binds, notified, dret, ncancel, conn>>
cliVars == <<ckind, cpc, attempts, eres, cret, console>>
stopVars == <<spc, stran, starget, sreq, sres, sret, sconsole>>
pxVars == <<ppc, pens, psock, pret, lst, fin, moved, produced, closed, rpos, buf, sink>>
fltVars == <<fdebug, ftarget, flevel, fenabled, finterest, fhint>>
vars == <<srvVars, cliVars, stopVars, pxVars, fltVars>>

\* --------------------------------------------------------- run_server

\* The server processes launched by hand in the run-server scenarios.
Servers == {1, PreDaemon}

\* A mutation of RunServerSelect: the cancellation branch completes although
\* no permit is stored.
RunServerSelect_NoWait(rdres, notif) ==
    (IF rdres = "Err" THEN {"Err"} ELSE {}) \cup {"Ok"}

\* A mutation of RunServerSelect: the cancellation branch is missing.
RunServerSelect_NoCancel(rdres, notif) ==
    IF rdres = "Err" THEN {"Err"} ELSE {}

\* A mutation of RunServerSelect: the error of run_daemon is swallowed and the
\* process keeps waiting for the cancellation.
RunServerSelect_SwallowErr(rdres, notif) ==
    IF notif THEN {"Ok"} ELSE {}

\* A mutation of RunServerSelect: the cancellation branch yields an error.
RunServerSelect_CancelIsError(rdres, notif) ==
    IF rdres = "Err" \/ notif THEN {"Err"} ELSE {}

\* tokio::select! of run_server: the branches that are ready, each a possible
\* result of run_server. run_daemon has no Ok value (its Ok type is empty), so
\* its branch is ready only with an error; the other branch is ready when the
\* cancellation Notify holds a permit. The empty set: run_server stays blocked.
RunServerSelect(rdres, notif) ==
    (IF rdres = "Err" THEN {"Err"} ELSE {}) \cup (IF notif THEN {"Ok"} ELSE {})

\* A mutation of DropTasks: the handler tasks survive the runtime.
DropTasks_Keep(c, d) == c

\* run_server returns: its Runtime is dropped, and with it every handler task
\* the accept loop spawned on it that has not finished.
DropTasks(c, d) ==
    [k \in DOMAIN c |->
        IF c[k].st = "handling" /\ c[k].owner = d
        THEN [c[k] EXCEPT !.st = "dropped"] ELSE c[k]]

\* listen(address) of run_daemon: exclusive; a second bind gets AddressInUse.
RunDaemonListen(d) ==
    /\ dpc[d] = "select" /\ rd[d] = "start"
    /\ binds' = [binds EXCEPT ![d] = @ + 1]
    /\ IF listener = NoOwner
       THEN /\ listener' = d
            /\ rd' = [rd EXCEPT ![d] = "accepting"]
       ELSE /\ rd' = [rd EXCEPT ![d] = "Err"]
            /\ UNCHANGED listener
    /\ UNCHANGED <<fltVars, dpc, notified, dret, ncancel, conn, cliVars, stopVars, pxVars>>

\* One iteration of the accept loop of run_daemon: a connection is accepted
\* and handed to a handler task of its own.
RunDaemonAccept(d, k) ==
    /\ dpc[d] = "select" /\ rd[d] = "accepting"
    /\ conn[k].st = "none"
    /\ conn' = [conn EXCEPT ![k] = [st |-> "handling", owner |-> d]]
    /\ UNCHANGED <<fltVars, listener, dpc, rd, binds, notified, dret, ncancel, cliVars, stopVars, pxVars>>

\* A handler task runs to its end; it runs only while its runtime lives.
HandlerFinish(k) ==
    /\ conn[k].st = "handling"
    /\ dpc[conn[k].owner] = "select"
    /\ conn' = [conn EXCEPT ![k].st = "done"]
    /\ UNCHANGED <<fltVars, listener, dpc, rd, binds, notified, dret, ncancel, cliVars, stopVars, pxVars>>

\* cancel(): notify_one on the Notify that factory.cancellation() handed out.
\* A Notify stores at most one permit.
Cancel(d) ==
    /\ dpc[d] # "none"
    /\ ncancel < MaxCancels
    /\ ncancel' = ncancel + 1
    /\ notified' = [notified EXCEPT ![d] = TRUE]
    /\ UNCHANGED <<fltVars, listener, dpc, rd, binds, dret, conn, cliVars, stopVars, pxVars>>

\* block_on(select!) of run_server completes with one of the ready branches;
\* the process leaves run_server, which closes its listener and drops its
\* runtime.
RunServerReturn(d) ==
    /\ dpc[d] = "select"
    /\ \E out \in RunServerSelect(rd[d], notified[d]) :
          dret' = [dret EXCEPT ![d] = out]
    /\ dpc' = [dpc EXCEPT ![d] = "returned"]
    /\ listener' = IF listener = d THEN NoOwner ELSE listener
    /\ conn' = DropTasks(conn, d)
    /\ UNCHANGED <<fltVars, rd, binds, notified, ncancel, cliVars, stopVars, pxVars>>

\* ------------------------------------------------- ensure_daemon, start

\* A mutation of StartReport: the two messages are swapped.
StartReport_Swapped(did_spawn) ==
    IF did_spawn THEN "already running" ELSE "started"

\* What start logs for the flag ensure_daemon returned.
StartReport(did_spawn) ==
    IF did_spawn THEN "started" ELSE "already running"

\* A mutation of EnsureOk: the `?` is missing and an error is taken for a flag.
EnsureOk_NoTry(r) == TRUE

\* The `?` on ensure_daemon: an error leaves the caller at once.
EnsureOk(r) == r \in {"true", "false"}

\* ensure_daemon step 1: the connect probe.
EnsureProbe(c) ==
    /\ cpc[c] = "probe"
    /\ IF listener # NoOwner
       THEN /\ eres' = [eres EXCEPT ![c] = "false"]
            /\ cpc' = [cpc EXCEPT ![c] = "report"]
       ELSE /\ cpc' = [cpc EXCEPT ![c] = "spawn"]
            /\ UNCHANGED eres
    /\ UNCHANGED <<fltVars, srvVars, stopVars, pxVars, ckind, attempts, cret, console>>

\* ensure_daemon step 2: spawn a detached process that runs run_server.
EnsureSpawn(c) ==
    /\ cpc[c] = "spawn"
    /\ dpc' = [dpc EXCEPT ![c] = "select"]
    /\ cpc' = [cpc EXCEPT ![c] = "poll"]
    /\ UNCHANGED <<fltVars, listener, rd, binds, notified, dret, ncancel, conn,
                   ckind, attempts, eres, cret, console, stopVars, pxVars>>

\* ensure_daemon step 3: one connect attempt of the bounded poll.
EnsurePoll(c) ==
    /\ cpc[c] = "poll"
    /\ IF listener # NoOwner
       THEN /\ eres' = [eres EXCEPT ![c] = "true"]
            /\ cpc' = [cpc EXCEPT ![c] = "report"]
            /\ UNCHANGED attempts
       ELSE IF attempts[c] + 1 >= PollBound
       THEN /\ eres' = [eres EXCEPT ![c] = "timeout"]
            /\ cpc' = [cpc EXCEPT ![c] = "report"]
            /\ attempts' = [attempts EXCEPT ![c] = @ + 1]
       ELSE /\ attempts' = [attempts EXCEPT ![c] = @ + 1]
            /\ UNCHANGED <<eres, cpc>>
    /\ UNCHANGED <<fltVars, srvVars, stopVars, pxVars, ckind, cret, console>>

\* start after ensure_daemon returned: report and return Ok, or return the
\* error without a report.
StartFinish(c) ==
    /\ cpc[c] = "report" /\ ckind[c] = "start"
    /\ IF EnsureOk(eres[c])
       THEN /\ console' = [console EXCEPT ![c] = StartReport(eres[c] = "true")]
            /\ cret' = [cret EXCEPT ![c] = "Ok"]
       ELSE /\ cret' = [cret EXCEPT ![c] = "Err"]
            /\ UNCHANGED console
    /\ cpc' = [cpc EXCEPT ![c] = "done"]
    /\ UNCHANGED <<fltVars, srvVars, stopVars, pxVars, ckind, attempts, eres>>

\* start_lsp_proxy after ensure_daemon returned: goes on to open_socket, or
\* returns the error.
ProxyAfterEnsure(c) ==
    /\ cpc[c] = "report" /\ ckind[c] = "proxy"
    /\ cret' = [cret EXCEPT ![c] = IF EnsureOk(eres[c]) THEN "Tunnel" ELSE "Err"]
    /\ cpc' = [cpc EXCEPT ![c] = "done"]
    /\ UNCHANGED <<fltVars, srvVars, stopVars, pxVars, ckind, attempts, eres, console>>

\* ---------------------------------------------------------------- stop

\* What client.shutdown() can return: the acknowledgement, the channel closed
\* before it, or another failure of the transport or of the request.
ShutdownErrors == {"ChannelClosed", "Timeout", "RPCError"}

\* A mutation of ShutdownBenign: only the acknowledged shutdown counts.
ShutdownBenign_OnlyOk(r) == r = "Ok"

\* A mutation of ShutdownBenign: every error is taken for a shutdown.
ShutdownBenign_Any(r) == TRUE

\* The first arm of the match on client.shutdown(): Ok(()) and
\* Err(TransportError(ChannelClosed)) fall through to the report.
ShutdownBenign(r) == r \in {"Ok", "ChannelClosed"}

\* A mutation of StopReport: the messages of the two arms are swapped.
StopReport_Swapped(hasTransport) ==
    IF hasTransport THEN "not running" ELSE "stopped"

\* What stop logs in the two arms of the match on open_transport.
StopReport(hasTransport) ==
    IF hasTransport THEN "stopped" ELSE "not running"

\* A mutation of StopNoTransportResult: no listener is reported as an error.
StopNoTransportResult_Err == "Err"

\* The `_` arm of the match on open_transport falls through to Ok(()).
StopNoTransportResult == "Ok"

\* open_transport(rt)?: a connection to the daemon that listens, None when
\* nothing listens, or an I/O error, with which stop returns at once.
StopOpen(s) ==
    /\ spc[s] = "open"
    /\ \/ /\ listener # NoOwner
          /\ stran' = [stran EXCEPT ![s] = "Some"]
          /\ starget' = [starget EXCEPT ![s] = listener]
          /\ spc' = [spc EXCEPT ![s] = "new"]
          /\ UNCHANGED <<sret, sconsole>>
       \/ /\ listener = NoOwner
          /\ stran' = [stran EXCEPT ![s] = "None"]
          /\ sconsole' = [sconsole EXCEPT ![s] = StopReport(FALSE)]
          /\ sret' = [sret EXCEPT ![s] = StopNoTransportResult]
          /\ spc' = [spc EXCEPT ![s] = "done"]
          /\ UNCHANGED starget
       \/ /\ stran' = [stran EXCEPT ![s] = "Err"]
          /\ sret' = [sret EXCEPT ![s] = "Err"]
          /\ spc' = [spc EXCEPT ![s] = "done"]
          /\ UNCHANGED <<starget, sconsole>>
    /\ UNCHANGED <<fltVars, srvVars, cliVars, pxVars, sreq, sres>>

\* WorkspaceClient::new(transport)?: the client, or an error, with which stop
\* returns at once.
StopNewClient(s) ==
    /\ spc[s] = "new"
    /\ \/ /\ spc' = [spc EXCEPT ![s] = "send"]
          /\ UNCHANGED sret
       \/ /\ sret' = [sret EXCEPT ![s] = "Err"]
          /\ spc' = [spc EXCEPT ![s] = "done"]
    /\ UNCHANGED <<fltVars, srvVars, cliVars, pxVars, stran, starget, sreq, sres, sconsole>>

\* client.shutdown() sends the shutdown request and waits for the answer.
StopSendShutdown(s) ==
    /\ spc[s] = "send"
    /\ sreq' = [sreq EXCEPT ![s] = "sent"]
    /\ spc' = [spc EXCEPT ![s] = "wait"]
    /\ UNCHANGED <<fltVars, srvVars, cliVars, pxVars, stran, starget, sres, sret, sconsole>>

\* The daemon handles a shutdown request: it fires its cancellation signal,
\* and the acknowledgement is either flushed to the channel or still unsent
\* when the process goes down.
DaemonShutdown(s) ==
    /\ sreq[s] = "sent"
    /\ dpc[starget[s]] = "select"
    /\ notified' = [notified EXCEPT ![starget[s]] = TRUE]
    /\ \E a \in {"acked", "unacked"} : sreq' = [sreq EXCEPT ![s] = a]
    /\ UNCHANGED <<fltVars, listener, dpc, rd, binds, dret, ncancel, conn, cliVars, pxVars,
                   spc, stran, starget, sres, sret, sconsole>>

\* What client.shutdown() can return now: Ok once the acknowledgement is in
\* the channel, ChannelClosed once the daemon has gone without one, and at
\* any time another failure.
ShutdownResults(s) ==
    (IF sreq[s] = "acked" THEN {"Ok"} ELSE {})
    \cup (IF sreq[s] # "acked" /\ dpc[starget[s]] = "returned"
          THEN {"ChannelClosed"} ELSE {})
    \cup (ShutdownErrors \ {"ChannelClosed"})

\* client.shutdown() returns and stop matches on the result: a benign result
\* is reported as a stop and stop returns Ok; any other error is returned.
StopFinish(s) ==
    /\ spc[s] = "wait"
    /\ \E r \in ShutdownResults(s) :
          /\ sres' = [sres EXCEPT ![s] = r]
          /\ IF ShutdownBenign(r)
             THEN /\ sconsole' = [sconsole EXCEPT ![s] = StopReport(TRUE)]
                  /\ sret' = [sret EXCEPT ![s] = "Ok"]
             ELSE /\ sret' = [sret EXCEPT ![s] = "Err"]
                  /\ UNCHANGED sconsole
    /\ spc' = [spc EXCEPT ![s] = "done"]
    /\ UNCHANGED <<fltVars, srvVars, cliVars, pxVars, stran, starget, sreq>>

\* ----------------------------------------------------------- lsp-proxy

\* The two forwarding tasks: "in" copies stdin to the socket's write half,
\* "out" copies the socket's read half to stdout.
Dirs == {"in", "out"}
Sinks == {"socket", "stdout"}
Bytes == {0, 1}

\* A mutation of Dest: both tasks were given the same writer.
Dest_SameWriter(dir) == "stdout"

\* The writer each io::copy call is given: owned_write_half for the task
\* that reads stdin, stdout for the task that reads owned_read_half.
Dest(dir) == IF dir = "in" THEN "socket" ELSE "stdout"

\* A mutation of AwaitedLoop: the input handle is awaited twice.
AwaitedLoop_InputTwice(p) == "in"

\* The join handle start_lsp_proxy awaits at each of its two awaits.
AwaitedLoop(p) == IF p = "await_in" THEN "in" ELSE "out"

\* Both results of the joins are bound to `_`; the arm ends in Ok(()).
ProxyResult(rin, rout) == "Ok"

Ended(dir) == lst[dir] \in {"Ok", "Err"}

\* A mutation of LoopEnds: the end of one task aborts the other one.
LoopEnds_AbortOther(l, dir, res) ==
    [e \in Dirs |-> IF e = dir THEN res
                    ELSE IF l[e] = "running" THEN "Err" ELSE l[e]]

\* The two loops are separate tasks given to rt.spawn, each one owning its
\* reader and its writer: a return in one of them ends that task alone.
LoopEnds(l, dir, res) == [l EXCEPT ![dir] = res]

\* A mutation of ProxyNoSocketResult: no connection is an error.
ProxyNoSocketResult_Err == "Err"

\* The None arm of the match on open_socket's value.
ProxyNoSocketResult == "Ok"

\* ensure_daemon(true, ..).await?: its outcome, as the callers see it.
ProxyEnsure ==
    /\ ppc = "ensure"
    /\ \E r \in {"Ok", "Err"} :
          /\ pens' = r
          /\ IF r = "Ok"
             THEN ppc' = "open" /\ UNCHANGED pret
             ELSE ppc' = "returned" /\ pret' = "Err"
    /\ UNCHANGED <<fltVars, srvVars, cliVars, stopVars, psock, lst, fin, moved,
                   produced, closed, rpos, buf, sink>>

\* open_socket().await?: the two halves of a connection, None when nothing
\* listens, or an I/O error. None ends start_lsp_proxy with Ok(()).
ProxyOpenSocket ==
    /\ ppc = "open"
    /\ \E r \in {"Some", "None", "Err"} :
          /\ psock' = r
          /\ CASE r = "Some" -> ppc' = "spawn_in" /\ UNCHANGED pret
               [] r = "None" -> ppc' = "returned" /\ pret' = ProxyNoSocketResult
               [] r = "Err" -> ppc' = "returned" /\ pret' = "Err"
    /\ UNCHANGED <<fltVars, srvVars, cliVars, stopVars, pens, lst, fin, moved,
                   produced, closed, rpos, buf, sink>>

\* rt.spawn of the task that forwards stdin to the socket.
ProxySpawnInput ==
    /\ ppc = "spawn_in"
    /\ lst' = [lst EXCEPT !["in"] = "running"]
    /\ ppc' = "spawn_out"
    /\ UNCHANGED <<fltVars, srvVars, cliVars, stopVars, pens, psock, pret, fin, moved,
                   produced, closed, rpos, buf, sink>>

\* rt.spawn of the task that forwards the socket to stdout.
ProxySpawnOutput ==
    /\ ppc = "spawn_out"
    /\ lst' = [lst EXCEPT !["out"] = "running"]
    /\ ppc' = "await_in"
    /\ UNCHANGED <<fltVars, srvVars, cliVars, stopVars, pens, psock, pret, fin, moved,
                   produced, closed, rpos, buf, sink>>

\* input_handle.await, then out_put_handle.await, then Ok(()).
ProxyAwait ==
    /\ ppc \in {"await_in", "await_out"}
    /\ Ended(AwaitedLoop(ppc))
    /\ IF ppc = "await_in"
       THEN ppc' = "await_out" /\ UNCHANGED pret
       ELSE ppc' = "returned" /\ pret' = ProxyResult(lst["in"], lst["out"])
    /\ UNCHANGED <<fltVars, srvVars, cliVars, stopVars, pens, psock, lst, fin, moved,
                   produced, closed, rpos, buf, sink>>

\* The source end of a direction (the editor on stdin, the daemon on the
\* socket) produces one more byte.
Produce(dir, b) ==
    /\ ppc # "absent"
    /\ ~closed[dir]
    /\ Len(produced[dir]) < MaxBytes
    /\ produced' = [produced EXCEPT ![dir] = Append(@, b)]
    /\ UNCHANGED <<fltVars, srvVars, cliVars, stopVars, ppc, pens, psock, pret, lst, fin,
                   moved, closed, rpos, buf, sink>>

\* The source end of a direction closes: end-of-stream follows its last byte.
CloseSource(dir) ==
    /\ ppc # "absent"
    /\ ~closed[dir]
    /\ closed' = [closed EXCEPT ![dir] = TRUE]
    /\ UNCHANGED <<fltVars, srvVars, cliVars, stopVars, ppc, pens, psock, pret, lst, fin,
                   moved, produced, rpos, buf, sink>>

Min(a, b) == IF a <= b THEN a ELSE b

\* io::copy reads the next bytes of the source into its buffer.
CopyRead(dir) ==
    /\ lst[dir] = "running"
    /\ buf[dir] = <<>>
    /\ rpos[dir] < Len(produced[dir])
    /\ \E n \in 1..Min(BufCap, Len(produced[dir]) - rpos[dir]) :
          /\ buf' = [buf EXCEPT ![dir] =
                        SubSeq(produced[dir], rpos[dir] + 1, rpos[dir] + n)]
          /\ rpos' = [rpos EXCEPT ![dir] = @ + n]
    /\ UNCHANGED <<fltVars, srvVars, cliVars, stopVars, ppc, pens, psock, pret, lst, fin,
                   moved, produced, closed, sink>>

\* io::copy writes bytes of its buffer to the writer; a write may be partial.
CopyWrite(dir) ==
    /\ lst[dir] = "running"
    /\ buf[dir] # <<>>
    /\ \E j \in 1..Len(buf[dir]) :
          /\ sink' = [sink EXCEPT ![Dest(dir)] = @ \o SubSeq(buf[dir], 1, j)]
          /\ buf' = [buf EXCEPT ![dir] = SubSeq(@, j + 1, Len(@))]
    /\ moved' = [moved EXCEPT ![dir] = TRUE]
    /\ UNCHANGED <<fltVars, srvVars, cliVars, stopVars, ppc, pens, psock, pret, lst, fin,
                   produced, closed, rpos>>

\* io::copy reads zero bytes: it returns Ok(b), b the bytes it copied. The
\* loop returns Ok(()) when b = 0 and calls io::copy again otherwise.
CopyEof(dir) ==
    /\ lst[dir] = "running"
    /\ buf[dir] = <<>>
    /\ rpos[dir] = Len(produced[dir])
    /\ closed[dir]
    /\ IF moved[dir]
       THEN /\ moved' = [moved EXCEPT ![dir] = FALSE]
            /\ UNCHANGED <<lst, fin>>
       ELSE /\ lst' = LoopEnds(lst, dir, "Ok")
            /\ fin' = Append(fin, dir)
            /\ UNCHANGED moved
    /\ UNCHANGED <<fltVars, srvVars, cliVars, stopVars, ppc, pens, psock, pret,
                   produced, closed, rpos, buf, sink>>

\* io::copy fails on a read or on a write: the loop returns the error, and
\* what its buffer held goes with the task.
CopyFail(dir) ==
    /\ lst[dir] = "running"
    /\ lst' = LoopEnds(lst, dir, "Err")
    /\ fin' = Append(fin, dir)
    /\ buf' = [buf EXCEPT ![dir] = <<>>]
    /\ UNCHANGED <<fltVars, srvVars, cliVars, stopVars, ppc, pens, psock, pret, moved,
                   produced, closed, rpos, sink>>

\* ------------------------------------------------------ LoggingFilter

\* tracing's levels in their order: ERROR < WARN < INFO < DEBUG < TRACE.
LevelOrder == <<"ERROR", "WARN", "INFO", "DEBUG", "TRACE">>
Levels == {LevelOrder[i] : i \in DOMAIN LevelOrder}
LevelRank(l) == CHOOSE i \in DOMAIN LevelOrder : LevelOrder[i] = l

\* `level <= &filter` of a Level and a LevelFilter.
LevelLe(l, filter) == LevelRank(l) <= LevelRank(filter)

\* Targets of events: crates of the tool and crates of others.
Targets ==
    { <<"p", "g", "t">>,
      <<"p", "g", "t", "_", "l", "s", "p">>,
      <<"p", "g", "t", "c", "l", "i">>,
      <<"p", "g">>,
      <<"p", "g", "_", "t">>,
      <<"x", "p", "g", "t">>,
      <<"t", "o", "k", "i", "o">>,
      <<>> }

\* str::starts_with.
StartsWith(str, pre) ==
    Len(pre) <= Len(str) /\ SubSeq(str, 1, Len(pre)) = pre

\* A mutation of SELF_FILTER: the release build stops at INFO.
SELF_FILTER_ReleaseInfo == IF fdebug THEN "TRACE" ELSE "INFO"

\* The filter for the spans and events of the pgt* crates.
SELF_FILTER == IF fdebug THEN "TRACE" ELSE "DEBUG"

\* A mutation of is_enabled: the comparison is strict.
is_enabled_Strict(target, level) ==
    LET filter == IF StartsWith(target, <<"p", "g", "t">>)
                  THEN SELF_FILTER ELSE "INFO"
    IN  LevelRank(level) < LevelRank(filter)

\* LoggingFilter::is_enabled.
is_enabled(target, level) ==
    LET filter == IF StartsWith(target, <<"p", "g", "t">>)
                  THEN SELF_FILTER ELSE "INFO"
    IN  LevelLe(level, filter)

\* A mutation of max_level_hint: the hint is the filter of the other crates.
max_level_hint_Info == "INFO"

\* Filter::max_level_hint.
max_level_hint == SELF_FILTER

\* A mutation of callsite_enabled: the two interests are swapped.
callsite_enabled_Swapped(target, level) ==
    IF is_enabled(target, level) THEN "never" ELSE "always"

\* Filter::callsite_enabled.
callsite_enabled(target, level) ==
    IF is_enabled(target, level) THEN "always" ELSE "never"

\* The dispatcher asks enabled() for the event.
FilterEnabled ==
    /\ fenabled = "pending"
    /\ fenabled' = (IF is_enabled(ftarget, flevel) THEN "true" ELSE "false")
    /\ UNCHANGED <<srvVars, cliVars, stopVars, pxVars, fdebug, ftarget, flevel,
                   finterest, fhint>>

\* The dispatcher registers the callsite of the event.
FilterCallsite ==
    /\ finterest = "pending"
    /\ finterest' = callsite_enabled(ftarget, flevel)
    /\ UNCHANGED <<srvVars, cliVars, stopVars, pxVars, fdebug, ftarget, flevel,
                   fenabled, fhint>>

\* The dispatcher asks for the hint.
FilterHint ==
    /\ fhint = "pending"
    /\ fhint' = max_level_hint
    /\ UNCHANGED <<srvVars, cliVars, stopVars, pxVars, fdebug, ftarget, flevel,
                   fenabled, finterest>>

\* ------------------------------------------------------- specifications

InitServers(launched, running) ==
    /\ listener = (IF running THEN PreDaemon ELSE NoOwner)
    /\ dpc = [d \in Daemons |->
                IF d \in launched \/ (running /\ d = PreDaemon)
                THEN "select" ELSE "none"]
    /\ rd = [d \in Daemons |->
                IF running /\ d = PreDaemon THEN "accepting" ELSE "start"]
    /\ binds = [d \in Daemons |-> IF running /\ d = PreDaemon THEN 1 ELSE 0]
    /\ notified = [d \in Daemons |-> FALSE]
    /\ dret = [d \in Daemons |-> "pending"]
    /\ ncancel = 0
    /\ conn = [k \in Conns |-> [st |-> "none", owner |-> NoOwner]]

InitClients(kinds) ==
    /\ ckind = kinds
    /\ cpc = [c \in Clients |-> "probe"]
    /\ attempts = [c \in Clients |-> 0]
    /\ eres = [c \in Clients |-> "pending"]
    /\ cret = [c \in Clients |-> "pending"]
    /\ console = [c \in Clients |-> "nothing"]

InitNoClients ==
    /\ ckind = [c \in Clients |-> "start"]
    /\ cpc = [c \in Clients |-> "absent"]
    /\ attempts = [c \in Clients |-> 0]
    /\ eres = [c \in Clients |-> "pending"]
    /\ cret = [c \in Clients |-> "pending"]
    /\ console = [c \in Clients |-> "nothing"]

InitStops(present) ==
    /\ spc = [s \in Stops |-> IF present THEN "open" ELSE "absent"]
    /\ stran = [s \in Stops |-> "pending"]
    /\ starget = [s \in Stops |-> NoOwner]
    /\ sreq = [s \in Stops |-> "none"]
    /\ sres = [s \in Stops |-> "pending"]
    /\ sret = [s \in Stops |-> "pending"]
    /\ sconsole = [s \in Stops |-> "nothing"]

InitProxy(present) ==
    /\ ppc = (IF present THEN "ensure" ELSE "absent")
    /\ pens = "pending"
    /\ psock = "pending"
    /\ pret = "pending"
    /\ lst = [dir \in Dirs |-> "unspawned"]
    /\ fin = <<>>
    /\ moved = [dir \in Dirs |-> FALSE]
    /\ produced = [dir \in Dirs |-> <<>>]
    /\ closed = [dir \in Dirs |-> FALSE]
    /\ rpos = [dir \in Dirs |-> 0]
    /\ buf = [dir \in Dirs |-> <<>>]
    /\ sink = [w \in Sinks |-> <<>>]

InitFilter(debug, target, level) ==
    /\ fdebug = debug
    /\ ftarget = target
    /\ flevel = level
    /\ fenabled = "pending"
    /\ finterest = "pending"
    /\ fhint = "pending"

\* No event is under way in the scenarios that are not about logging.
InitNoEvent == InitFilter(FALSE, <<>>, "INFO")

\* Clients race through ensure_daemon; a server may or may not run already.
InitEnsure ==
    /\ \E running \in BOOLEAN : InitServers({}, running)
    /\ \E kinds \in [Clients -> {"start", "proxy"}] : InitClients(kinds)
    /\ InitStops(FALSE)
    /\ InitProxy(FALSE)
    /\ InitNoEvent

ClientStep(c) ==
    \/ EnsureProbe(c)
    \/ EnsureSpawn(c)
    \/ EnsurePoll(c)
    \/ StartFinish(c)
    \/ ProxyAfterEnsure(c)

DaemonStartStep(d) ==
    \/ RunDaemonListen(d)
    \/ RunServerReturn(d)

NextEnsure ==
    \/ \E c \in Clients : ClientStep(c)
    \/ \E d \in Daemons : DaemonStartStep(d)

SpecEnsure == InitEnsure /\ [][NextEnsure]_vars

\* Clients and spawned daemons are processes of their own, each scheduled by
\* the operating system.
FairSpecEnsure ==
    /\ SpecEnsure
    /\ \A c \in Clients : WF_vars(ClientStep(c))
    /\ \A d \in Daemons : WF_vars(DaemonStartStep(d))

\* Server processes launched by hand race for the address, serve connections
\* and are cancelled.
InitServer ==
    /\ InitServers(Servers, FALSE)
    /\ InitNoClients
    /\ InitStops(FALSE)
    /\ InitProxy(FALSE)
    /\ InitNoEvent

ServerStep(d) ==
    \/ RunDaemonListen(d)
    \/ \E k \in Conns : RunDaemonAccept(d, k)
    \/ RunServerReturn(d)

NextServer ==
    \/ \E d \in Servers : ServerStep(d)
    \/ \E k \in Conns : HandlerFinish(k)
    \/ \E d \in Servers : Cancel(d)

SpecServer == InitServer /\ [][NextServer]_vars

\* block_on drives the select of run_server and the runtime's workers drive
\* the handler tasks; when the signal fires is up to the environment.
FairSpecServer ==
    /\ SpecServer
    /\ \A d \in Servers : WF_vars(RunDaemonListen(d)) /\ WF_vars(RunServerReturn(d))
    /\ \A k \in Conns : WF_vars(HandlerFinish(k))

\* ------------------------------------------ ensure_daemon under a race

\* The daemon processes that serve the address: alive, with an accept loop.
Bound == {d \in Daemons : dpc[d] = "select" /\ rd[d] = "accepting"}

\* Every ensure_daemon call has returned and every spawned daemon's listen
\* call has returned.
CallsFinished ==
    /\ \A c \in Clients : cpc[c] = "done"
    /\ \A d \in Daemons : dpc[d] # "none" => rd[d] # "start"

\* C1: whatever the interleaving of the clients' connect probes and spawns
\* and of the spawned daemons' listen calls, at most one daemon process is
\* bound to the address in every reachable state, the address is owned by
\* that daemon and by no other, and once the calls (the clients'
\* ensure_daemon calls and the daemons' listen calls) have finished exactly
\* one daemon is bound; a daemon whose listen failed never serves, and if it
\* has left run_server it left with the error.
C1_AtMostOneDaemonBound ==
    /\ Cardinality(Bound) <= 1
    /\ Bound = (IF listener = NoOwner THEN {} ELSE {listener})
    /\ CallsFinished => Cardinality(Bound) = 1
    /\ \A d \in Daemons : rd[d] = "Err" => dret[d] \in {"pending", "Err"}

\* Two clients both found the address free and both spawned; one daemon won
\* the bind, the other lost it, and every call has finished.
C1_Witness_RaceLost ==
    /\ CallsFinished
    /\ \E d1, d2 \in Clients :
          /\ d1 # d2
          /\ rd[d1] = "accepting" /\ dpc[d1] = "select"
          /\ rd[d2] = "Err" /\ binds[d2] = 1

\* C2 as stated: every caller's ensure_daemon returns with a daemon reachable
\* at the address.
C2_Original_EveryCallerReachesDaemon ==
    \A c \in Clients :
        cpc[c] = "done" => (EnsureOk(eres[c]) /\ listener # NoOwner)

\* C2, amended: under fair scheduling every caller's ensure_daemon returns;
\* a call that returned success has, from then on, a daemon reachable at the
\* address (also when the caller's own daemon lost the bind race), and a call
\* that failed did so with DaemonStartTimeout after PollBound connect
\* attempts that found no listener.
C2_EveryCallerReturns ==
    /\ <>(\A c \in Clients : cpc[c] = "done")
    /\ [](\A c \in Clients : EnsureOk(eres[c]) => Bound # {})
    /\ [](\A c \in Clients :
            /\ eres[c] = "timeout" => (attempts[c] = PollBound /\ dpc[c] # "none")
            /\ cpc[c] = "done" => eres[c] # "pending")

\* A caller whose own daemon lost the bind race has returned success: it
\* reached the winner's listener.
C2_Witness_LoserCallerConnects ==
    \E c \in Clients :
        /\ cpc[c] = "done" /\ eres[c] = "true"
        /\ rd[c] = "Err"
        /\ listener \notin {NoOwner, c}

\* ------------------------------------------------------- stop commands

\* Stop commands run against an address where a server may or may not listen.
InitStop ==
    /\ \E running \in BOOLEAN : InitServers({}, running)
    /\ InitNoClients
    /\ InitStops(TRUE)
    /\ InitProxy(FALSE)
    /\ InitNoEvent

StopStep(s) ==
    \/ StopOpen(s)
    \/ StopNewClient(s)
    \/ StopSendShutdown(s)
    \/ StopFinish(s)

NextStop ==
    \/ \E s \in Stops : StopStep(s)
    \/ \E s \in Stops : DaemonShutdown(s)
    \/ RunServerReturn(PreDaemon)

SpecStop == InitStop /\ [][NextStop]_vars

\* C3: stop returns Ok and reports "The server was successfully stopped" in
\* both shutdown outcomes of a reachable daemon: the acknowledged shutdown
\* (Ok) and the channel closed before the acknowledgement (ChannelClosed).
C3_StopSucceedsOnAckOrClose ==
    \A s \in Stops :
        (spc[s] = "done" /\ sres[s] \in {"Ok", "ChannelClosed"})
            => (sret[s] = "Ok" /\ sconsole[s] = "stopped")

\* Two stop commands reached the same daemon: one got the acknowledgement,
\* the other saw the channel close without one.
C3_Witness_BothOutcomes ==
    \E s1, s2 \in Stops :
        /\ spc[s1] = "done" /\ sres[s1] = "Ok" /\ sreq[s1] = "acked"
        /\ spc[s2] = "done" /\ sres[s2] = "ChannelClosed"
        /\ dret[PreDaemon] = "Ok"

\* C4: when the shutdown request fails with an error other than
\* ChannelClosed, stop returns the error and does not report a stop.
C4_OtherErrorsFail ==
    \A s \in Stops :
        (spc[s] = "done" /\ sres[s] \in ShutdownErrors \ {"ChannelClosed"})
            => (sret[s] = "Err" /\ sconsole[s] = "nothing")

\* A stop command whose shutdown request timed out has returned.
C4_Witness_TimedOut ==
    \E s \in Stops :
        spc[s] = "done" /\ sres[s] = "Timeout" /\ sreq[s] = "sent"

\* C5: when nothing listens at the address, stop reports "The server was not
\* running", sends no shutdown request and returns Ok.
C5_NotRunningIsSuccess ==
    \A s \in Stops :
        (spc[s] = "done" /\ stran[s] = "None")
            => (sconsole[s] = "not running" /\ sret[s] = "Ok"
                /\ sreq[s] = "none" /\ sres[s] = "pending")

\* A stop command found no listener and has returned.
C5_Witness_NoListener ==
    \E s \in Stops :
        /\ spc[s] = "done" /\ stran[s] = "None"
        /\ listener = NoOwner

\* ------------------------------------------- run_server and cancellation

\* run_server of d is blocked in its select with the accept loop running.
BlockedInSelect(d) == dpc[d] = "select" /\ rd[d] = "accepting"

\* C9: whenever the cancellation signal has fired while run_server is blocked
\* in its select with the accept loop running, be the loop idle or a
\* connection in the hands of a handler, run_server returns, and returns Ok.
C9_CancelReturnsOk ==
    \A d \in Servers :
        (BlockedInSelect(d) /\ notified[d])
            ~> (dpc[d] = "returned" /\ dret[d] = "Ok")

\* Two servers were cancelled while blocked in the select and returned Ok:
\* one while a connection was being handled, the other while idle.
C9_Witness_CancelledBusyAndIdle ==
    \E d1, d2 \in Servers :
        /\ d1 # d2
        /\ dret[d1] = "Ok" /\ rd[d1] = "accepting"
        /\ dret[d2] = "Ok" /\ rd[d2] = "accepting"
        /\ \E k \in Conns : conn[k].owner = d1 /\ conn[k].st = "dropped"
        /\ \A k \in Conns : conn[k].owner # d2

\* C10 as stated: the handling of every connection accepted before the signal
\* is completed although run_server returns Ok.
C10_Original_AcceptedWorkCompleted ==
    \A k \in Conns :
        (conn[k].st # "none" /\ dret[conn[k].owner] = "Ok")
            => conn[k].st = "done"

\* C10, amended: firing the cancellation signal while a connection is being
\* handled still makes run_server return Ok, and loses no handling that had
\* completed; the handling still in flight when run_server returns is dropped
\* with the runtime, at that return and not before, and is not completed.
C10_InFlightDroppedAtReturn ==
    [][\A k \in Conns :
          /\ conn[k].st = "done" => conn'[k] = conn[k]
          /\ (conn[k].st = "handling" /\ dpc'[conn[k].owner] = "returned")
                => (conn'[k].st = "dropped" /\ dret'[conn[k].owner] = "Ok")
          /\ (conn[k].st # "dropped" /\ conn'[k].st = "dropped")
                => (dpc[conn[k].owner] = "select" /\ dpc'[conn[k].owner] = "returned")
          /\ conn[k].st = "dropped" => conn'[k] = conn[k]
      ]_vars

\* A server was cancelled after it had completed one connection and while it
\* was handling another.
C10_Witness_OneDoneOneDropped ==
    \E k1, k2 \in Conns :
        /\ conn[k1].st = "done" /\ conn[k2].st = "dropped"
        /\ conn[k1].owner = conn[k2].owner
        /\ dret[conn[k1].owner] = "Ok"

\* -------------------------------------------------------- the tunnel

\* One lsp-proxy process; the editor and the daemon produce bytes and close
\* their ends when they like.
InitTunnel ==
    /\ InitServers({}, FALSE)
    /\ InitNoClients
    /\ InitStops(FALSE)
    /\ InitProxy(TRUE)
    /\ InitNoEvent

ProxyStep ==
    \/ ProxyEnsure
    \/ ProxyOpenSocket
    \/ ProxySpawnInput
    \/ ProxySpawnOutput
    \/ ProxyAwait

LoopStep(dir) ==
    \/ CopyRead(dir)
    \/ CopyWrite(dir)
    \/ CopyEof(dir)

NextTunnel ==
    \/ ProxyStep
    \/ \E dir \in Dirs : LoopStep(dir)
    \/ \E dir \in Dirs : CopyFail(dir)
    \/ \E dir \in Dirs, b \in Bytes : Produce(dir, b)
    \/ \E dir \in Dirs : CloseSource(dir)

SpecTunnel == InitTunnel /\ [][NextTunnel]_vars

\* block_on drives start_lsp_proxy and the runtime's workers drive the two
\* spawned tasks; what the two ends produce, and whether an I/O error
\* strikes, is up to the environment.
FairSpecTunnel ==
    /\ SpecTunnel
    /\ WF_vars(ProxyStep)
    /\ \A dir \in Dirs : WF_vars(LoopStep(dir))

IsPrefix(a, b) == Len(a) <= Len(b) /\ a = SubSeq(b, 1, Len(a))

\* C6: the tunnel is byte-transparent and FIFO in each direction, whatever
\* the interleaving of the two forwarding loops: what the daemon side has
\* received is at every moment the beginning of what the external input has
\* produced, what the external output has received is the beginning of what
\* the daemon has written, and a direction that ended at end-of-stream has
\* delivered exactly the sequence its source produced.
C6_TunnelTransparentFifo ==
    /\ IsPrefix(sink["socket"], produced["in"])
    /\ IsPrefix(sink["stdout"], produced["out"])
    /\ lst["in"] = "Ok" => sink["socket"] = produced["in"]
    /\ lst["out"] = "Ok" => sink["stdout"] = produced["out"]

\* Both directions ended at end-of-stream after MaxBytes bytes each, the two
\* sequences different.
C6_Witness_BothDirectionsDelivered ==
    /\ lst["in"] = "Ok" /\ lst["out"] = "Ok"
    /\ Len(sink["socket"]) = MaxBytes /\ Len(sink["stdout"]) = MaxBytes
    /\ sink["socket"] # sink["stdout"]

\* C7: lsp-proxy returns from the tunnel only after both forwarding loops
\* have ended, in whichever order they end, and under fair scheduling it does
\* return once both directions are at end-of-stream or have failed.
C7_ReturnsAfterBothLoops ==
    /\ []((ppc = "returned" /\ psock = "Some") => (Ended("in") /\ Ended("out")))
    /\ (psock = "Some" /\ \A dir \in Dirs : closed[dir] \/ lst[dir] = "Err")
            ~> (ppc = "returned")

\* lsp-proxy has returned from a tunnel whose output loop ended first.
C7_Witness_OutputEndedFirst ==
    /\ ppc = "returned" /\ psock = "Some"
    /\ fin = <<"out", "in">>

\* C8: when a forwarding loop ends with an I/O error, lsp-proxy returns an
\* error to its caller.
C8_LoopErrorFailsProxy ==
    (ppc = "returned" /\ \E dir \in Dirs : lst[dir] = "Err") => pret = "Err"

\* ------------------------------------- run_server without cancellation

\* C11: run_server never returns Ok unless the cancellation signal has
\* fired: as long as it has not, run_server is blocked in its select or has
\* returned the error with which run_daemon failed.
C11_NoSuccessWithoutCancel ==
    \A d \in Servers :
        /\ dret[d] = "Ok" => notified[d]
        /\ (dpc[d] = "returned" /\ ~notified[d])
                => (dret[d] = "Err" /\ rd[d] = "Err")
        /\ dret[d] = "Err" => rd[d] = "Err"

\* No signal was fired: one server is blocked in its select with the accept
\* loop running, the other has returned the error of its run_daemon.
C11_Witness_BlockedAndFailed ==
    /\ ncancel = 0
    /\ \E d1, d2 \in Servers :
          /\ BlockedInSelect(d1) /\ dret[d1] = "pending"
          /\ dpc[d2] = "returned" /\ dret[d2] = "Err"

\* C12: when the bind of run_daemon fails because the address is in use and
\* no cancellation has fired, run_server returns that error after this one
\* bind attempt: it does not bind again and accepts no connection.
C12_BindFailureReturned ==
    /\ [](\A d \in Servers :
            rd[d] = "Err" =>
                /\ binds[d] = 1
                /\ \A k \in Conns : conn[k].owner # d
                /\ (dpc[d] = "returned" /\ ~notified[d]) => dret[d] = "Err")
    /\ \A d \in Servers :
            (rd[d] = "Err" /\ ~notified[d])
                ~> (dpc[d] = "returned" \/ notified[d])
    /\ [][\A d \in Servers :
            (rd[d] = "Err" /\ ~notified[d] /\ ~notified'[d]
                /\ dpc[d] = "select" /\ dpc'[d] = "returned")
                    => (dret'[d] = "Err" /\ binds'[d] = 1)]_vars

\* A server lost the bind to the other one, was never cancelled and has
\* returned the error.
C12_Witness_LoserReturnedErr ==
    \E d, w \in Servers :
        /\ d # w /\ BlockedInSelect(w)
        /\ rd[d] = "Err" /\ binds[d] = 1 /\ ~notified[d]
        /\ dpc[d] = "returned" /\ dret[d] = "Err"

\* ------------------------------------------------ start and its report

\* C13: start reports "The server was successfully started" exactly when its
\* ensure_daemon call spawned a daemon, and "The server was already running"
\* exactly when a daemon was reachable at the connect probe; in that case no
\* process is spawned and no further connect attempt is made.
C13_StartReportsSpawn ==
    \A c \in Clients :
        (ckind[c] = "start" /\ cpc[c] = "done") =>
            /\ console[c] = "started" <=> (eres[c] = "true" /\ dpc[c] # "none")
            /\ console[c] = "already running"
                    <=> (eres[c] = "false" /\ dpc[c] = "none" /\ attempts[c] = 0)
            /\ console[c] # "nothing" => cret[c] = "Ok"

\* Two start commands have returned: one had spawned the daemon and reported
\* the start, the other found it at its probe.
C13_Witness_StartedAndAlreadyRunning ==
    \E c1, c2 \in Clients :
        /\ ckind[c1] = "start" /\ cpc[c1] = "done" /\ console[c1] = "started"
        /\ ckind[c2] = "start" /\ cpc[c2] = "done"
        /\ console[c2] = "already running"
        /\ listener = c1

\* C14: ensure_daemon always terminates: after the spawn it makes at most
\* PollBound connect attempts, returns success at the first attempt that
\* opens a connection, and fails with DaemonStartTimeout when the attempts
\* are used up; start then returns the error and reports neither a start nor
\* a running server.
C14_EnsureDaemonTerminates ==
    /\ <>(\A c \in Clients : cpc[c] = "done")
    /\ [](\A c \in Clients :
            /\ attempts[c] <= PollBound
            /\ eres[c] = "true" => attempts[c] < PollBound
            /\ eres[c] = "timeout" => attempts[c] = PollBound
            /\ (cpc[c] = "poll" /\ attempts[c] > 0) => eres[c] = "pending"
            /\ (ckind[c] = "start" /\ cpc[c] = "done" /\ eres[c] = "timeout")
                    => (cret[c] = "Err" /\ console[c] = "nothing"))

\* A start command has returned the timeout of its ensure_daemon call, whose
\* spawned daemon had not bound yet.
C14_Witness_StartTimedOut ==
    \E c \in Clients :
        /\ ckind[c] = "start" /\ cpc[c] = "done"
        /\ eres[c] = "timeout" /\ cret[c] = "Err"
        /\ dpc[c] = "select" /\ rd[c] = "start"

\* ---------------------------------------------------- the logging filter

\* One event of any target and level reaches the filter of a debug or of a
\* release build.
InitLogging ==
    /\ InitServers({}, FALSE)
    /\ InitNoClients
    /\ InitStops(FALSE)
    /\ InitProxy(FALSE)
    /\ \E debug \in BOOLEAN, target \in Targets, level \in Levels :
          InitFilter(debug, target, level)

NextLogging ==
    \/ FilterEnabled
    \/ FilterCallsite
    \/ FilterHint

SpecLogging == InitLogging /\ [][NextLogging]_vars

\* The event comes from a crate of the tool: its target starts with "pgt".
IsOwnTarget ==
    /\ Len(ftarget) >= Len(<<"p", "g", "t">>)
    /\ ftarget[1] = "p" /\ ftarget[2] = "g" /\ ftarget[3] = "t"

\* C15: LoggingFilter enables an event if and only if its level is at most
\* the threshold of its source: TRACE in a debug build and DEBUG in a release
\* build for a target that starts with "pgt", INFO for any other target.
C15_EnabledIffWithinThreshold ==
    fenabled # "pending" =>
        (fenabled = "true" <=>
            IF IsOwnTarget
            THEN (fdebug \/ flevel \in {"ERROR", "WARN", "INFO", "DEBUG"})
            ELSE flevel \in {"ERROR", "WARN", "INFO"})

\* The filter of a release build has refused a TRACE event of a pgt crate.
C15_Witness_ReleaseRefusesTrace ==
    /\ ~fdebug /\ IsOwnTarget /\ ftarget # <<"p", "g", "t">>
    /\ flevel = "TRACE" /\ fenabled = "false"

\* C16 as stated: for a source of the tool at DEBUG the decision is true in a
\* debug build and false in a release build; for another source at DEBUG it
\* is false in both builds; at INFO it is true in both builds.
C16_Original_DebugOffInRelease ==
    fenabled # "pending" =>
        /\ (IsOwnTarget /\ flevel = "DEBUG")
                => (fenabled = "true" <=> fdebug)
        /\ (~IsOwnTarget /\ flevel = "DEBUG") => fenabled = "false"
        /\ flevel = "INFO" => fenabled = "true"

\* C16, amended: for a source of the tool at DEBUG the decision is true in a
\* debug build and in a release build (it is at TRACE that it is true in a
\* debug build and false in a release build); for another source at DEBUG it
\* is false in both builds; at INFO it is true in both builds.
C16_DebugOnInBothBuilds ==
    fenabled # "pending" =>
        /\ (IsOwnTarget /\ flevel = "DEBUG") => fenabled = "true"
        /\ (IsOwnTarget /\ flevel = "TRACE")
                => (fenabled = "true" <=> fdebug)
        /\ (~IsOwnTarget /\ flevel = "DEBUG") => fenabled = "false"
        /\ flevel = "INFO" => fenabled = "true"

\* The filter of a release build has accepted a DEBUG event of a pgt crate.
C16_Witness_ReleaseAcceptsDebug ==
    /\ ~fdebug /\ IsOwnTarget
    /\ flevel = "DEBUG" /\ fenabled = "true"

\* C17: in both builds every event enabled() accepts has a level at most
\* max_level_hint(), and callsite_enabled returns Interest::always for the
\* metadata enabled() accepts and Interest::never for all other.
C17_HintBoundsAndCallsiteAgrees ==
    /\ (fenabled = "true" /\ fhint # "pending")
            => \E i, j \in DOMAIN LevelOrder :
                  /\ LevelOrder[i] = flevel /\ LevelOrder[j] = fhint
                  /\ i <= j
    /\ (fenabled # "pending" /\ finterest # "pending")
            => (finterest = "always" <=> fenabled = "true")
    /\ (fenabled # "pending" /\ finterest # "pending")
            => (finterest = "never" <=> fenabled = "false")

\* A DEBUG event of a pgt crate in a release build: accepted, its callsite
\* always of interest, its level the hint itself.
C17_Witness_AcceptedAtTheHint ==
    /\ ~fdebug /\ fenabled = "true" /\ finterest = "always"
    /\ fhint = flevel /\ flevel = "DEBUG"

\* C18: the two forwarding loops of the tunnel are independent. A step in
\* which one loop ends, at end-of-stream or with an I/O error, leaves the
\* other loop's status, position in its source, buffer and delivered bytes
\* as they were, so the other loop is not cancelled; and a loop that ended
\* after the other one, at its own end-of-stream, has delivered every byte
\* its source produced.
C18_LoopsIndependent ==
    /\ [][\A d \in Dirs :
            (lst[d] = "running" /\ lst'[d] # "running")
                => \A e \in Dirs \ {d} :
                      /\ lst'[e] = lst[e]
                      /\ rpos'[e] = rpos[e]
                      /\ buf'[e] = buf[e]
                      /\ moved'[e] = moved[e]
                      /\ sink' = sink]_vars
    /\ []((fin = <<"in", "out">> /\ lst["out"] = "Ok")
            => sink["stdout"] = produced["out"])
    /\ []((fin = <<"out", "in">> /\ lst["in"] = "Ok")
            => sink["socket"] = produced["in"])

\* The input loop failed with nothing delivered, and the output loop went
\* on to its own end-of-stream with MaxBytes bytes delivered.
C18_Witness_OutputOutlivesFailedInput ==
    /\ fin = <<"in", "out">>
    /\ lst["in"] = "Err" /\ sink["socket"] = <<>> /\ produced["in"] # <<>>
    /\ lst["out"] = "Ok" /\ Len(sink["stdout"]) = MaxBytes

\* C20: when ensure_daemon has succeeded and opening the socket yields no
\* connection, lsp-proxy starts no forwarding loop, forwards no byte and
\* returns success.
C20_NoConnectionIsSuccess ==
    psock = "None"
        => /\ pens = "Ok"
           /\ ppc = "returned" /\ pret = "Ok"
           /\ \A dir \in Dirs : lst[dir] = "unspawned" /\ buf[dir] = <<>>
           /\ \A w \in Sinks : sink[w] = <<>>
           /\ fin = <<>>

\* No connection was there although both ends had bytes to send.
C20_Witness_NoConnectionWithPendingBytes ==
    /\ psock = "None" /\ ppc = "returned"
    /\ \A dir \in Dirs : Len(produced[dir]) = MaxBytes

\* C19: cancel() is idempotent. A firing of the cancellation signal does
\* nothing but leave the permit of one server's Notify set, so a firing on a
\* Notify whose permit is already set, be its server still in the select or
\* already returned, changes nothing; no firing alters a result run_server
\* has given, and a server cancelled while its accept loop ran has returned
\* Ok however many times the signal fired.
C19_CancelIdempotent ==
    /\ [][(ncancel' # ncancel)
            => /\ \E d \in DOMAIN notified :
                     notified' = [notified EXCEPT ![d] = TRUE]
               /\ UNCHANGED <<listener, dpc, rd, binds, dret, conn>>]_vars
    /\ [][\A d \in Servers :
            dpc[d] = "returned" => (dpc'[d] = "returned" /\ dret'[d] = dret[d])]_vars
    /\ [](\A d \in Servers :
            (dpc[d] = "returned" /\ rd[d] = "accepting") => dret[d] = "Ok")

\* The signal fired MaxCancels times on one server, which returned Ok, and
\* on no other.
C19_Witness_FiredAgainOnReturnedServer ==
    \E d \in Servers :
        /\ dpc[d] = "returned" /\ dret[d] = "Ok" /\ notified[d]
        /\ ncancel = MaxCancels
        /\ \A e \in DOMAIN notified : e # d => ~notified[e]

====
